---- MODULE Spec2Model ----
(***************************************************************************)
(* Model of the notebook 2_FloatingPointPrecision.ipynb: seven code cells  *)
(* executed by one kernel on one shared namespace.  Python floats are IEEE *)
(* 754 binary64 values; they are modelled exactly, as sign, 53-bit         *)
(* significand and binary exponent, and every operation rounds to nearest, *)
(* ties to even, as the hardware does.  TLC's integers are 32 bits wide,   *)
(* so significands are kept as little-endian sequences of 15-bit limbs.    *)
(* All values of the notebook lie far inside the normal range of binary64  *)
(* (1e-35 .. 1e9), so subnormals, infinities and NaN are not modelled.     *)
(***************************************************************************)
EXTENDS Integers, Sequences, FiniteSets, TLC

(***************************************************************************)
(* Natural numbers of arbitrary size: <<>> is 0, u[1] the lowest limb, the *)
(* highest limb is never 0.                                                *)
(***************************************************************************)
Base == 2^15

RECURSIVE Trim(_)
Trim(u) ==
  IF u = <<>> THEN u
  ELSE IF u[Len(u)] = 0 THEN Trim(SubSeq(u, 1, Len(u) - 1)) ELSE u

Limb(u, k) == IF k <= Len(u) THEN u[k] ELSE 0

RECURSIVE AddFrom(_, _, _, _)
AddFrom(u, w, k, carry) ==
  IF k > Len(u) /\ k > Len(w)
  THEN IF carry = 0 THEN <<>> ELSE <<carry>>
  ELSE LET t == Limb(u, k) + Limb(w, k) + carry
       IN  <<t % Base>> \o AddFrom(u, w, k + 1, t \div Base)

BigAdd(u, w) == AddFrom(u, w, 1, 0)

RECURSIVE SubFrom(_, _, _, _)
SubFrom(u, w, k, borrow) ==
  IF k > Len(u) THEN <<>>
  ELSE LET t == Limb(u, k) - Limb(w, k) - borrow
       IN  <<t % Base>> \o SubFrom(u, w, k + 1, IF t < 0 THEN 1 ELSE 0)

\* u - w, for u >= w
BigSub(u, w) == Trim(SubFrom(u, w, 1, 0))

RECURSIVE CmpFrom(_, _, _)
CmpFrom(u, w, k) ==
  IF k = 0 THEN 0
  ELSE IF u[k] > w[k] THEN 1
  ELSE IF u[k] < w[k] THEN -1
  ELSE CmpFrom(u, w, k - 1)

\* -1, 0 or 1 as u < w, u = w or u > w
BigCmp(u, w) ==
  IF Len(u) > Len(w) THEN 1
  ELSE IF Len(u) < Len(w) THEN -1
  ELSE CmpFrom(u, w, Len(u))

RECURSIVE MulSmallFrom(_, _, _, _)
MulSmallFrom(u, m, k, carry) ==
  IF k > Len(u)
  THEN IF carry = 0 THEN <<>> ELSE <<carry>>
  ELSE LET t == u[k] * m + carry
       IN  <<t % Base>> \o MulSmallFrom(u, m, k + 1, t \div Base)

\* u * m, for 0 <= m <= Base
BigMulSmall(u, m) == IF m = 0 THEN <<>> ELSE MulSmallFrom(u, m, 1, 0)

ShiftLimbs(u, n) == IF u = <<>> THEN u ELSE [j \in 1..n |-> 0] \o u

RECURSIVE MulFrom(_, _, _)
MulFrom(u, w, k) ==
  IF k > Len(w) THEN <<>>
  ELSE BigAdd(ShiftLimbs(BigMulSmall(u, w[k]), k - 1), MulFrom(u, w, k + 1))

BigMul(u, w) == MulFrom(u, w, 1)

RECURSIVE DivSmallFrom(_, _, _, _)
DivSmallFrom(u, m, k, rem) ==
  IF k = 0 THEN <<>>
  ELSE LET t == rem * Base + u[k]
       IN  DivSmallFrom(u, m, k - 1, t % m) \o <<t \div m>>

\* floor(u / m), for 0 < m <= Base
BigDivSmall(u, m) == Trim(DivSmallFrom(u, m, Len(u), 0))

RECURSIVE SmallBitLen(_)
SmallBitLen(n) == IF n = 0 THEN 0 ELSE 1 + SmallBitLen(n \div 2)

LimbBits == SmallBitLen(Base) - 1

BitLen(u) ==
  IF u = <<>> THEN 0 ELSE LimbBits * (Len(u) - 1) + SmallBitLen(u[Len(u)])

\* u * 2^n and floor(u / 2^n)
Shl(u, n) == ShiftLimbs(BigMulSmall(u, 2^(n % LimbBits)), n \div LimbBits)
Shr(u, n) == BigDivSmall(SubSeq(u, (n \div LimbBits) + 1, Len(u)), 2^(n % LimbBits))

Bit(u, bi) == (Limb(u, (bi \div LimbBits) + 1) \div 2^(bi % LimbBits)) % 2

BigOne == <<1>>

\* the largest d with w * d <= r, counting down from an estimate that is
\* not below it
RECURSIVE DigitFix(_, _, _)
DigitFix(r, w, d) ==
  IF BigCmp(BigMulSmall(w, d), r) > 0 THEN DigitFix(r, w, d - 1) ELSE d

\* the next quotient limb, for r < w * Base and the top limb of w at least
\* Base / 2: the two top limbs of r divided by the top limb of w exceed it
\* by at most 2
DigitFrom(r, w, est) == DigitFix(r, w, IF est < Base THEN est ELSE Base - 1)
Digit(r, w) ==
  IF Len(r) < Len(w) THEN 0
  ELSE DigitFrom(r, w, (Limb(r, Len(w) + 1) * Base + Limb(r, Len(w))) \div w[Len(w)])

\* long division, one limb of u at a time from the top: q collects the
\* quotient's limbs, r is the running remainder, r2 the remainder with the
\* next limb brought down and d the quotient limb it yields
RECURSIVE DivLimbs(_, _, _, _, _)
DivPut(u, w, k, q, r2, d) ==
  DivLimbs(u, w, k - 1, <<d>> \o q,
           IF d = 0 THEN r2 ELSE BigSub(r2, BigMulSmall(w, d)))
DivDown(u, w, k, q, r2) == DivPut(u, w, k, q, r2, Digit(r2, w))
DivLimbs(u, w, k, q, r) ==
  IF k = 0 THEN [q |-> Trim(q), r |-> r]
  ELSE DivDown(u, w, k, q, Trim(<<u[k]>> \o r))

\* quotient and remainder of u by w, w > 0: both are scaled by 2^s so that
\* the top limb of the divisor is at least Base / 2
DivUnscale(qr, s) == [q |-> qr.q, r |-> Shr(qr.r, s)]
DivScaled(u2, w2, s) == DivUnscale(DivLimbs(u2, w2, Len(u2), <<>>, <<>>), s)
DivNorm(u, w, s) == DivScaled(Shl(u, s), Shl(w, s), s)
BigDivMod(u, w) == DivNorm(u, w, LimbBits - SmallBitLen(w[Len(w)]))

\* floor of the square root of m < Base * Base, one bit at a time
RECURSIVE SmallSqrtBits(_, _, _)
SmallSqrtBits(m, j, r) ==
  IF j < 0 THEN r
  ELSE IF (r + 2^j) * (r + 2^j) <= m
  THEN SmallSqrtBits(m, j - 1, r + 2^j)
  ELSE SmallSqrtBits(m, j - 1, r)

\* floor of the square root by Newton's iteration, which descends to it from
\* any start that is not below it
RECURSIVE SqrtNewton(_, _)
SqrtStep(n, r, r2) == IF BigCmp(r2, r) >= 0 THEN r ELSE SqrtNewton(n, r2)
SqrtNewton(n, r) == SqrtStep(n, r, Shr(BigAdd(r, BigDivMod(n, r).q), 1))

\* the start is the root of the top two limbs' worth of bits, rounded up:
\* t is the even number of bits below them
SqrtShift(over) == IF over <= 0 THEN 0 ELSE 2 * ((over + 1) \div 2)
SqrtTop(top) ==
  SmallSqrtBits(Limb(top, 1) + Base * Limb(top, 2), LimbBits - 1, 0)
SqrtFrom(n, t) ==
  SqrtNewton(n, Shl(BigAdd(Trim(<<SqrtTop(Shr(n, t))>>), BigOne), t \div 2))
BigSqrt(n) ==
  IF n = <<>> THEN n ELSE SqrtFrom(n, SqrtShift(BitLen(n) - 2 * LimbBits))

BigSquare(u) == BigMul(u, u)

RECURSIVE BigPow10(_)
BigPow10(k) ==
  IF k = 0 THEN BigOne
  ELSE BigMulSmall(BigSquare(BigPow10(k \div 2)), IF k % 2 = 1 THEN 10 ELSE 1)

\* the natural number written with the decimal digits ds[lo..hi], highest
\* first
RECURSIVE BigOfDigits(_, _, _)
BigOfDigits(ds, lo, hi) ==
  IF lo > hi THEN <<>>
  ELSE IF lo = hi THEN (IF ds[lo] = 0 THEN <<>> ELSE <<ds[lo]>>)
  ELSE LET mid == (lo + hi) \div 2
       IN  BigAdd(BigMul(BigOfDigits(ds, lo, mid), BigPow10(hi - mid)),
                  BigOfDigits(ds, mid + 1, hi))

(***************************************************************************)
(* binary64: the value of [neg, man, exp] is (-1)^neg * man * 2^exp.  A    *)
(* nonzero float has a significand of exactly Precision bits, so equal     *)
(* values are equal records; zero is [FALSE, <<>>, 0].                     *)
(***************************************************************************)
Precision == 53

\* guard digits kept beyond the Precision before a result is rounded
Guard == 3

Zero == [neg |-> FALSE, man |-> <<>>, exp |-> 0]

IsZero(fx) == fx.man = <<>>

\* man * 2^exp (plus, when sticky, a positive amount below one unit of man)
\* rounded to the nearest float, ties to even.  n is the length of man in
\* bits, d the number of bits dropped, q the bits kept, half the comparison
\* of the dropped bits with half a unit of q, q2 the rounded significand.
RoundCarry(neg, q2, exp) ==
  IF BitLen(q2) > Precision
  THEN [neg |-> neg, man |-> Shr(q2, 1), exp |-> exp + 1]
  ELSE [neg |-> neg, man |-> q2, exp |-> exp]
RoundHalf(neg, q, exp, sticky, half) ==
  RoundCarry(neg,
             IF half > 0 \/ (half = 0 /\ (sticky \/ Bit(q, 0) = 1))
             THEN BigAdd(q, BigOne) ELSE q,
             exp)
RoundKept(neg, man, exp, sticky, d, q) ==
  RoundHalf(neg, q, exp + d, sticky,
            BigCmp(BigSub(man, Shl(q, d)), Shl(BigOne, d - 1)))
RoundBits(neg, man, exp, sticky, n) ==
  IF n = 0 THEN Zero
  ELSE IF n <= Precision
  THEN [neg |-> neg, man |-> Shl(man, Precision - n), exp |-> exp - (Precision - n)]
  ELSE RoundKept(neg, man, exp, sticky, n - Precision, Shr(man, n - Precision))
Round(neg, man, exp, sticky) == RoundBits(neg, man, exp, sticky, BitLen(man))

FNeg(fx) == IF IsZero(fx) THEN fx ELSE [fx EXCEPT !.neg = ~fx.neg]
FAbs(fx) == [fx EXCEPT !.neg = FALSE]

\* -1, 0, 1 as |x| < |y|, |x| = |y|, |x| > |y|
MagCmp(fx, fy) ==
  IF IsZero(fx) THEN (IF IsZero(fy) THEN 0 ELSE -1)
  ELSE IF IsZero(fy) THEN 1
  ELSE IF fx.exp > fy.exp THEN 1
  ELSE IF fx.exp < fy.exp THEN -1
  ELSE BigCmp(fx.man, fy.man)

FCmp(fx, fy) ==
  IF fx.neg /\ ~fy.neg THEN -1
  ELSE IF ~fx.neg /\ fy.neg THEN 1
  ELSE IF fx.neg THEN -MagCmp(fx, fy) ELSE MagCmp(fx, fy)

FLt(fx, fy) == FCmp(fx, fy) < 0
FEq(fx, fy) == FCmp(fx, fy) = 0

\* the exact sum or difference of two significands aligned at 2^e, mx >= my,
\* rounded; the sign is that of the larger operand
AddAligned(negx, mx, negy, my, e, sticky) ==
  Round(negx, IF negx = negy THEN BigAdd(mx, my) ELSE BigSub(mx, my), e, sticky)

\* fx + fy for |fx| >= |fy|, both nonzero, so that fx.exp >= fy.exp.  When fy
\* lies wholly below the guard digits of fx (far) it only decides the
\* direction of rounding: the sum is fx itself, or fx less one unit of the
\* last guard digit, with something more below it.
AddFar(fx, fy, far) ==
  AddAligned(fx.neg,
             Shl(fx.man, IF far THEN Guard ELSE fx.exp - fy.exp),
             fy.neg,
             IF ~far THEN fy.man ELSE IF fx.neg = fy.neg THEN <<>> ELSE BigOne,
             IF far THEN fx.exp - Guard ELSE fy.exp,
             far)
AddOrdered(fx, fy) == AddFar(fx, fy, fx.exp - fy.exp >= Precision + Guard)
AddLarger(fx, fy, first) ==
  AddOrdered(IF first THEN fx ELSE fy, IF first THEN fy ELSE fx)

FAdd(fx, fy) ==
  IF IsZero(fx) THEN fy
  ELSE IF IsZero(fy) THEN fx
  ELSE AddLarger(fx, fy, MagCmp(fx, fy) >= 0)

FSub(fx, fy) == FAdd(fx, FNeg(fy))

FMul(fx, fy) ==
  IF IsZero(fx) \/ IsZero(fy) THEN Zero
  ELSE Round(fx.neg # fy.neg, BigMul(fx.man, fy.man), fx.exp + fy.exp, FALSE)

\* (-1)^neg * num / den rounded once, den > 0: num is scaled by 2^k so that
\* the quotient has the guard digits, and what the division leaves is sticky
RatRound(neg, dm, k) == Round(neg, dm.q, -k, dm.r # <<>>)
RatScaled(neg, num, den, k) == RatRound(neg, BigDivMod(Shl(num, k), den), k)
FromRat(neg, num, den) ==
  RatScaled(neg, num, den,
            IF Precision + Guard + BitLen(den) > BitLen(num)
            THEN Precision + Guard + BitLen(den) - BitLen(num) ELSE 0)

\* fx * 2^e
Scale(fx, e) == [fx EXCEPT !.exp = fx.exp + e]

\* x / y for y # 0
FDiv(fx, fy) ==
  IF IsZero(fx) THEN Zero
  ELSE Scale(FromRat(fx.neg # fy.neg, fx.man, fy.man), fx.exp - fy.exp)

\* math.sqrt(x) for x >= 0: the root rounded once.  The significand is
\* shifted to m, with an even exponent e and the guard digits, and r is the
\* floor of its root.
SqrtRound(m, e, r) ==
  Round(FALSE, r, (e \div 2) - (Precision \div 2 + Guard), BigMul(r, r) # m)
SqrtOf(m, e) == SqrtRound(m, e, BigSqrt(m))
FSqrt(fx) ==
  IF IsZero(fx) THEN Zero
  ELSE SqrtOf(Shl(fx.man, (fx.exp % 2) + 2 * (Precision \div 2 + Guard)),
              fx.exp - (fx.exp % 2))

\* the float a decimal literal denotes: digits ds, highest first, times 10^e10
DecNat(neg, n, e10) ==
  FromRat(neg,
          IF e10 >= 0 THEN BigMul(n, BigPow10(e10)) ELSE n,
          IF e10 >= 0 THEN BigOne ELSE BigPow10(-e10))
Dec(neg, ds, e10) == DecNat(neg, BigOfDigits(ds, 1, Len(ds)), e10)

(***************************************************************************)
(* The literals and functions of the notebook.                             *)
(***************************************************************************)
\* the exceptions a cell can end with; NoFault when it runs to its end
NoFault == ""
NameError(name) == "NameError: name '" \o name \o "' is not defined"
ZeroDivisionError == "ZeroDivisionError: float division by zero"
ValueError == "ValueError: math domain error"

One  == Dec(FALSE, <<1>>, 0)
Two  == Dec(FALSE, <<2>>, 0)
Four == Dec(FALSE, <<4>>, 0)

Lit1p1   == Dec(FALSE, <<1, 1>>, -1)
Lit2p2   == Dec(FALSE, <<2, 2>>, -1)
Lit3p3   == Dec(FALSE, <<3, 3>>, -1)
EpsLit   == Dec(FALSE, <<1>>, -12)
DeltaLit == Dec(FALSE, <<1>>, -14)
ALit     == Dec(FALSE, <<1>>, -4)
BLit     == Dec(FALSE, <<1>>, 4)
\* the slip of a constant term c = 0.
CLitZero == Zero
CLit     == Dec(FALSE, <<1>>, -4)

\* b*b - 4.*a*c
Disc(ca, cb, cc) == FSub(FMul(cb, cb), FMul(FMul(Four, ca), cc))

\* the slip of computing the first root in the form 2*c / (-b - sqrt(...))
StdRoot1Stable(ca, cb, cc) ==
  FDiv(FMul(Two, cc), FSub(FNeg(cb), FSqrt(Disc(ca, cb, cc))))

\* (-b + sqrt(b*b - 4.*a*c)) / (2.*a) and (-b - sqrt(b*b - 4.*a*c)) / (2.*a)
StdRoot1(ca, cb, cc) ==
  FDiv(FAdd(FNeg(cb), FSqrt(Disc(ca, cb, cc))), FMul(Two, ca))
StdRoot2(ca, cb, cc) ==
  FDiv(FSub(FNeg(cb), FSqrt(Disc(ca, cb, cc))), FMul(Two, ca))

\* 2*c / (-b - sqrt(b*b-4.*a*c)) and 2*c / (-b + sqrt(b*b-4.*a*c))
AltDen1(ca, cb, cc) == FSub(FNeg(cb), FSqrt(Disc(ca, cb, cc)))
AltDen2(ca, cb, cc) == FAdd(FNeg(cb), FSqrt(Disc(ca, cb, cc)))
\* the slip of taking the other sign of the root in the first denominator
AltRoot1SignSlip(ca, cb, cc) == FDiv(FMul(Two, cc), AltDen2(ca, cb, cc))
AltRoot1(ca, cb, cc) == FDiv(FMul(Two, cc), AltDen1(ca, cb, cc))
\* the slip of leaving the second root in the form (-b - sqrt(...)) / (2.*a)
AltRoot2Standard(ca, cb, cc) == StdRoot2(ca, cb, cc)
AltRoot2(ca, cb, cc) == FDiv(FMul(Two, cc), AltDen2(ca, cb, cc))

\* the slip of a linear f(x) = x, whose forward difference is exact
fLinear(px) == px
\* def f(x): return x*(x-1.)
f(px) == FMul(px, FSub(px, One))

\* def df_exact(x): return 2.*x - 1.
df_exact(px) == FSub(FMul(Two, px), One)

\* the slip of taking the central difference (f(x+h) - f(x-h)) / (2*h)
df_central(px, ph) ==
  FDiv(FSub(f(FAdd(px, ph)), f(FSub(px, ph))), FMul(Two, ph))

\* def df_numeric(x,h): return (f(x+h) - f(x)) / h
df_numeric(px, ph) == FDiv(FSub(f(FAdd(px, ph)), f(px)), ph)

\* 10**k for an int k <= 0: the int 1 for k = 0 (it takes part in float
\* arithmetic as 1.0), for k < 0 the float nearest to 10^k
Pow10(k) == FromRat(FALSE, BigOne, BigPow10(-k))

\* range(0,-20,-1)
RangeStart == 0
RangeStop  == -20
RangeStep  == -1

\* the n-th value of the range, n = 0, 1, ..., and whether there is one
RangeItem(n) == RangeStart + n * RangeStep
\* the slip of a range that includes its stop value
RangeHasStop(n) == RangeStart + n * RangeStep >= RangeStop
RangeHas(n)  == RangeItem(n) > RangeStop

\* the slip of a sweep at x0 = 0.25
X0Quarter == Dec(FALSE, <<2, 5>>, -2)
\* x0 = 1.
X0Lit == Dec(FALSE, <<1>>, 0)

\* the slip of a row whose derivative is taken at the step of the next row
SweepRowStale(k) ==
  [fault  |-> NoFault,
   h      |-> Pow10(k),
   df_val |-> df_numeric(X0Lit, Pow10(k - 1)),
   df_err |-> FDiv(FAbs(FSub(df_numeric(X0Lit, Pow10(k - 1)), df_exact(X0Lit))),
                   df_exact(X0Lit))]

\* the body of the loop for one value k of i: h, df_val and df_err, or the
\* exception of a zero divisor (h in df_numeric, df_exact(x0) in df_err).
\* The cell binds x0, f, df_exact and df_numeric itself before the loop, and
\* no other cell runs until it ends, so the row depends on k alone.
SweepRow(k) ==
  LET hh == Pow10(k) IN
  IF IsZero(hh) \/ IsZero(df_exact(X0Lit))
  THEN [fault |-> ZeroDivisionError, h |-> hh, df_val |-> Zero, df_err |-> Zero]
  ELSE [fault  |-> NoFault,
        h      |-> hh,
        df_val |-> df_numeric(X0Lit, hh),
        df_err |-> FDiv(FAbs(FSub(df_numeric(X0Lit, hh), df_exact(X0Lit))),
                        df_exact(X0Lit))]

RECURSIVE SweepRowsFrom(_)
SweepRowsFrom(n) ==
  IF RangeHas(n) THEN <<SweepRow(RangeItem(n))>> \o SweepRowsFrom(n + 1) ELSE <<>>

\* the rows of the whole sweep, in the order of the loop, evaluated once
SweepRows == SweepRowsFrom(0)

\* the slip of a sum without round-off
XSumExact == Lit3p3

\* 1.1 + 2.2
XSum == FAdd(Lit1p1, Lit2p2)

\* the slip of comparing for equality whatever the precision
WithinEpsExact(px, peps) == FEq(px, Lit3p3)

\* abs(x-3.3) < eps
WithinEps(px, peps) == FLt(FAbs(FSub(px, Lit3p3)), peps)

\* the values the Example 2 cell computes from its own literals: sqrt(2),
\* y = 1. + delta * sqrt(2), res = (1./delta)*(y-x), res - sqrt(2)
Sqrt2   == FSqrt(Two)
YVal    == FAdd(One, FMul(DeltaLit, Sqrt2))
\* the slip of a difference y - x without round-off, delta * sqrt(2)
ResValNoCancel == FMul(FDiv(One, DeltaLit), FMul(DeltaLit, Sqrt2))
ResVal  == FMul(FDiv(One, DeltaLit), FSub(YVal, One))
DiffVal == FSub(ResVal, Sqrt2)

\* the exception, if any, that the two lines of an Example 3 cell raise before
\* the first root is bound: sqrt of a negative number, then a zero divisor
RootFault(disc, den) ==
  IF FLt(disc, Zero) THEN ValueError
  ELSE IF IsZero(den) THEN ZeroDivisionError
  ELSE NoFault

\* what the first Example 3 cell computes from its own literals
StdFault == RootFault(Disc(ALit, BLit, CLit), FMul(Two, ALit))
StdX1 == StdRoot1(ALit, BLit, CLit)
StdX2 == StdRoot2(ALit, BLit, CLit)

(***************************************************************************)
(* The kernel.  The namespace is one variable per name the cells bind,     *)
(* under the name of the source; defined is the set of names bound so far  *)
(* (a name not in it holds a placeholder that is never read).  One cell    *)
(* runs at a time: pc is "sweep" while the loop of the Example 4 cell is   *)
(* running and "idle" between cells.  cell is the cell that ran last, out  *)
(* the lines it printed, fig the points it drew, fault the exception that  *)
(* ended it ("" when it ran to its end).  ran and ascending record the     *)
(* history: the cells run so far, and whether each ran after all cells     *)
(* above it that have run, and only once.                                  *)
(***************************************************************************)
VARIABLES x, eps, delta, y, res, a, b, c, x1, x2,
          x0, i, h, df_val, df_err, arr_h, arr_df, arr_err,
          defined, pc, iter, cell, out, fig, fault, ran, ascending

ex1  == <<x, eps>>
ex2  == <<delta, y, res>>
ex3  == <<a, b, c, x1, x2>>
ex4  == <<x0, i, h, df_val, df_err, arr_h, arr_df, arr_err>>
vars == <<ex1, ex2, ex3, ex4, defined, pc, iter, cell, out, fig, fault, ran, ascending>>

Cells == 1..7

\* the code cells of each example, in notebook order
ExampleCells == <<{1, 2}, {3}, {4, 5}, {6, 7}>>

\* one printed line: the text with {} for each value, and the values
Line(text, args) == [text |-> text, args |-> args]

Init ==
  /\ x = Zero /\ eps = Zero
  /\ delta = Zero /\ y = Zero /\ res = Zero
  /\ a = Zero /\ b = Zero /\ c = Zero /\ x1 = Zero /\ x2 = Zero
  /\ x0 = Zero /\ i = 0 /\ h = Zero /\ df_val = Zero /\ df_err = Zero
  /\ arr_h = <<>> /\ arr_df = <<>> /\ arr_err = <<>>
  /\ defined = {}
  /\ pc = "idle" /\ iter = 0 /\ cell = 0
  /\ out = <<>> /\ fig = <<>> /\ fault = NoFault
  /\ ran = {} /\ ascending = TRUE

\* a cell starts: the kernel is idle; the history takes note
Start(k) ==
  /\ pc = "idle"
  /\ cell' = k
  /\ ran' = ran \cup {k}
  /\ ascending' = (ascending /\ \A j \in ran : j < k)

\* x = 1.1 + 2.2 and the exact comparison with 3.3
Cell1 ==
  /\ Start(1)
  /\ x' = XSum
  /\ defined' = defined \cup {"x"}
  /\ out' = << Line("x =  {}", <<x'>>),
               Line("{}", <<Lit3p3>>),
               IF FEq(x', Lit3p3)
               THEN Line("x == 3.3 is True", <<>>)
               ELSE Line("x == 3.3 is False", <<>>) >>
  /\ fig' = <<>> /\ fault' = NoFault
  /\ UNCHANGED <<eps, ex2, ex3, ex4, pc, iter>>

\* the comparison of x with 3.3 to the precision eps
Cell2 ==
  /\ Start(2)
  /\ fig' = <<>>
  /\ IF "x" \notin defined
     THEN /\ fault' = NameError("x")
          /\ out' = <<>>
          /\ UNCHANGED <<eps, defined>>
     ELSE /\ eps' = EpsLit
          /\ defined' = defined \cup {"eps"}
          /\ out' = << Line("x =  {}", <<x>>),
                       IF WithinEps(x, eps')
                       THEN Line("x == 3.3 to a precision of {} is True", <<eps'>>)
                       ELSE Line("x == 3.3 to a precision of {} is False", <<eps'>>) >>
          /\ fault' = NoFault
  /\ UNCHANGED <<x, ex2, ex3, ex4, pc, iter>>

\* Example 2: (1/delta) * (y - x) against sqrt(2)
Cell3 ==
  /\ Start(3)
  /\ delta' = DeltaLit
  /\ x' = One
  /\ y' = YVal
  /\ res' = ResVal
  /\ defined' = defined \cup {"sqrt", "delta", "x", "y", "res"}
  /\ out' = << Line("x =  {}", <<x'>>),
               Line("y =  {}", <<y'>>),
               Line("(1/delta) * (y-x) =  {}", <<res'>>),
               Line("The accurate value is sqrt(2) =  {}", <<Sqrt2>>),
               Line("The difference is  {}", <<DiffVal>>) >>
  /\ fig' = <<>> /\ fault' = NoFault
  /\ UNCHANGED <<eps, ex3, ex4, pc, iter>>

\* Example 3, the quadratic formula
Cell4 ==
  /\ Start(4)
  /\ a' = ALit /\ b' = BLit /\ c' = CLit
  /\ fig' = <<>>
  /\ IF "sqrt" \notin defined
     THEN /\ fault' = NameError("sqrt")
          /\ defined' = defined \cup {"a", "b", "c"}
          /\ out' = <<>>
          /\ UNCHANGED <<x1, x2>>
     ELSE /\ fault' = StdFault
          /\ IF fault' # NoFault
             THEN /\ defined' = defined \cup {"a", "b", "c"}
                  /\ out' = <<>>
                  /\ UNCHANGED <<x1, x2>>
             ELSE /\ x1' = StdX1
                  /\ x2' = StdX2
                  /\ defined' = defined \cup {"a", "b", "c", "x1", "x2"}
                  /\ out' = << Line("x1 =  {}", <<x1'>>), Line("x2 =  {}", <<x2'>>) >>
  /\ UNCHANGED <<ex1, ex2, ex4, pc, iter>>

\* the first name the alternate-form cell reads that is not bound, in the
\* order it reads them (c, b, sqrt, a), or "" when all are bound
Cell5Unbound ==
  IF "c" \notin defined THEN "c"
  ELSE IF "b" \notin defined THEN "b"
  ELSE IF "sqrt" \notin defined THEN "sqrt"
  ELSE IF "a" \notin defined THEN "a"
  ELSE ""

\* Example 3, the alternate form
Cell5 ==
  /\ Start(5)
  /\ fig' = <<>>
  /\ IF Cell5Unbound # ""
     THEN /\ fault' = NameError(Cell5Unbound)
          /\ out' = <<>>
          /\ UNCHANGED <<x1, x2, defined>>
     ELSE IF RootFault(Disc(a, b, c), AltDen1(a, b, c)) # NoFault
     THEN /\ fault' = RootFault(Disc(a, b, c), AltDen1(a, b, c))
          /\ out' = <<>>
          /\ UNCHANGED <<x1, x2, defined>>
     ELSE IF IsZero(AltDen2(a, b, c))
     THEN /\ fault' = ZeroDivisionError
          /\ x1' = AltRoot1(a, b, c)
          /\ defined' = defined \cup {"x1"}
          /\ out' = <<>>
          /\ UNCHANGED x2
     ELSE /\ fault' = NoFault
          /\ x1' = AltRoot1(a, b, c)
          /\ x2' = AltRoot2(a, b, c)
          /\ defined' = defined \cup {"x1", "x2"}
          /\ out' = << Line("x1 =  {}", <<x1'>>), Line("x2 =  {}", <<x2'>>) >>
  /\ UNCHANGED <<ex1, ex2, a, b, c, ex4, pc, iter>>

\* Example 4 up to the loop: the three functions, the header, x0, the lists
Cell6 ==
  /\ Start(6)
  /\ x0' = X0Lit
  /\ arr_h' = <<>> /\ arr_df' = <<>> /\ arr_err' = <<>>
  /\ defined' = defined \cup {"f", "df_exact", "df_numeric", "x0",
                              "arr_h", "arr_df", "arr_err"}
  /\ out' = << Line("{:<10} {:<20} {:<20}", <<>>) >>
  /\ fig' = <<>> /\ fault' = NoFault
  /\ pc' = "sweep" /\ iter' = 0
  /\ UNCHANGED <<ex1, ex2, ex3, i, h, df_val, df_err>>

\* one pass of the loop: the range yields its next value and the body runs
SweepIter ==
  /\ pc = "sweep"
  /\ RangeHas(iter)
  /\ i' = RangeItem(iter)
  /\ iter' = iter + 1
  /\ h' = SweepRows[iter + 1].h
  /\ IF SweepRows[iter + 1].fault # NoFault
     THEN /\ fault' = SweepRows[iter + 1].fault
          /\ pc' = "idle"
          /\ defined' = defined \cup {"i", "h"}
          /\ UNCHANGED <<df_val, df_err, arr_h, arr_df, arr_err, out>>
     ELSE /\ df_val' = SweepRows[iter + 1].df_val
          /\ df_err' = SweepRows[iter + 1].df_err
          /\ arr_h' = Append(arr_h, h')
          /\ arr_df' = Append(arr_df, df_val')
          /\ arr_err' = Append(arr_err, df_err')
          /\ out' = Append(out, Line("{:<10} {:<20} {:<20}", <<h', df_val', df_err'>>))
          /\ defined' = defined \cup {"i", "h", "df_val", "df_err"}
          /\ UNCHANGED <<fault, pc>>
  /\ UNCHANGED <<ex1, ex2, ex3, x0, cell, fig, ran, ascending>>

\* the range is exhausted: the loop and the cell end
SweepExit ==
  /\ pc = "sweep"
  /\ ~RangeHas(iter)
  /\ pc' = "idle"
  /\ UNCHANGED <<ex1, ex2, ex3, ex4, defined, iter, cell, out, fig, fault, ran, ascending>>

\* the slip of plotting arr_error, a name no cell binds
Cell7UnboundTypo ==
  IF "arr_h" \notin defined THEN "arr_h"
  ELSE IF "arr_error" \notin defined THEN "arr_error"
  ELSE ""

\* the first name the plot cell reads that is not bound
Cell7Unbound ==
  IF "arr_h" \notin defined THEN "arr_h"
  ELSE IF "arr_err" \notin defined THEN "arr_err"
  ELSE ""

\* the log-log scatter plot of arr_err against arr_h
Cell7 ==
  /\ Start(7)
  /\ defined' = defined \cup {"plt", "params"}
  /\ out' = <<>>
  /\ IF Cell7Unbound # ""
     THEN /\ fault' = NameError(Cell7Unbound)
          /\ fig' = <<>>
     ELSE /\ fault' = NoFault
          /\ fig' = [j \in 1..Len(arr_h) |-> <<arr_h[j], arr_err[j]>>]
  /\ UNCHANGED <<ex1, ex2, ex3, ex4, pc, iter>>

Next ==
  \/ Cell1 \/ Cell2 \/ Cell3 \/ Cell4 \/ Cell5 \/ Cell6
  \/ SweepIter \/ SweepExit \/ Cell7

Spec == Init /\ [][Next]_vars

(***************************************************************************)
(* Example 3 in exact arithmetic.  The two cells run on the same namespace *)
(* with exact numbers in place of floats: the coefficients a, b, c are     *)
(* integers (the roots do not change when a, b and c are multiplied by a   *)
(* common denominator, so rational coefficients add nothing), drawn by the *)
(* initial state instead of being the literals of the first cell.  With    *)
(* D = b*b - 4*a*c and s = sqrt(D), every value the cells compute is a     *)
(* quotient of two numbers p + q*s with integers p and q.                  *)
(***************************************************************************)
\* the coefficients range over -MaxCoef .. MaxCoef
MaxCoef == 3

Coefs == -MaxCoef..MaxCoef

\* b*b - 4.*a*c
ExactDisc(ca, cb, cc) == cb * cb - 4 * ca * cc

\* the floor of the square root of n >= 0, and whether n is a square
ISqrt(n) == CHOOSE r \in 0..n : r * r <= n /\ (r + 1) * (r + 1) > n
IsSquare(n) == ISqrt(n) * ISqrt(n) = n

\* p + q*s; when sd = s*s is no square the pair is unique, and when it is
\* one the number is the integer p + q*s
Surd(p, q) == [p |-> p, q |-> q]
SurdMul(u, w, sd) == Surd(u.p * w.p + u.q * w.q * sd, u.p * w.q + u.q * w.p)
SurdIsZero(u, sd) ==
  IF IsSquare(sd) THEN u.p + u.q * ISqrt(sd) = 0 ELSE u.p = 0 /\ u.q = 0
SurdEq(u, w, sd) == SurdIsZero(Surd(u.p - w.p, u.q - w.q), sd)

\* num / den for den # 0; two quotients are equal when the cross products are
Quot(num, den) == [num |-> num, den |-> den]
QuotEq(u, w, sd) ==
  SurdEq(SurdMul(u.num, w.den, sd), SurdMul(w.num, u.den, sd), sd)

\* (-b + sqrt(b*b - 4.*a*c)) / (2.*a) and (-b - sqrt(b*b - 4.*a*c)) / (2.*a)
ExactStdRoot1(ca, cb, cc) == Quot(Surd(-cb, 1), Surd(2 * ca, 0))
ExactStdRoot2(ca, cb, cc) == Quot(Surd(-cb, -1), Surd(2 * ca, 0))

\* the slip of taking the other sign of the root in the first denominator
ExactAltRoot1SignSlip(ca, cb, cc) == Quot(Surd(2 * cc, 0), Surd(-cb, 1))

\* 2*c / (-b - sqrt(b*b-4.*a*c)) and 2*c / (-b + sqrt(b*b-4.*a*c))
ExactAltRoot1(ca, cb, cc) == Quot(Surd(2 * cc, 0), Surd(-cb, -1))
ExactAltRoot2(ca, cb, cc) == Quot(Surd(2 * cc, 0), Surd(-cb, 1))

\* the exception a root raises before it is bound: sqrt of a negative
\* number, then a zero divisor
ExactFault(sd, den) ==
  IF sd < 0 THEN ValueError
  ELSE IF SurdIsZero(den, sd) THEN ZeroDivisionError
  ELSE NoFault

InitExact ==
  /\ a \in Coefs /\ b \in Coefs /\ c \in Coefs
  /\ x1 = Zero /\ x2 = Zero
  /\ x = Zero /\ eps = Zero
  /\ delta = Zero /\ y = Zero /\ res = Zero
  /\ x0 = Zero /\ i = 0 /\ h = Zero /\ df_val = Zero /\ df_err = Zero
  /\ arr_h = <<>> /\ arr_df = <<>> /\ arr_err = <<>>
  /\ defined = {"sqrt", "a", "b", "c"}
  /\ pc = "idle" /\ iter = 0 /\ cell = 0
  /\ out = <<>> /\ fig = <<>> /\ fault = NoFault
  /\ ran = {} /\ ascending = TRUE

\* Example 3, the quadratic formula: both roots divide by 2.*a
ExactCell4 ==
  /\ Start(4)
  /\ fig' = <<>>
  /\ fault' = ExactFault(ExactDisc(a, b, c), ExactStdRoot1(a, b, c).den)
  /\ IF fault' # NoFault
     THEN /\ out' = <<>>
          /\ UNCHANGED <<x1, x2, defined>>
     ELSE /\ x1' = ExactStdRoot1(a, b, c)
          /\ x2' = ExactStdRoot2(a, b, c)
          /\ defined' = defined \cup {"x1", "x2"}
          /\ out' = << Line("x1 =  {}", <<x1'>>), Line("x2 =  {}", <<x2'>>) >>
  /\ UNCHANGED <<ex1, ex2, a, b, c, ex4, pc, iter>>

\* Example 3, the alternate form: x1 is bound before x2 is computed
ExactCell5 ==
  /\ Start(5)
  /\ fig' = <<>>
  /\ IF ExactFault(ExactDisc(a, b, c), ExactAltRoot1(a, b, c).den) # NoFault
     THEN /\ fault' = ExactFault(ExactDisc(a, b, c), ExactAltRoot1(a, b, c).den)
          /\ out' = <<>>
          /\ UNCHANGED <<x1, x2, defined>>
     ELSE IF SurdIsZero(ExactAltRoot2(a, b, c).den, ExactDisc(a, b, c))
     THEN /\ fault' = ZeroDivisionError
          /\ x1' = ExactAltRoot1(a, b, c)
          /\ defined' = defined \cup {"x1"}
          /\ out' = <<>>
          /\ UNCHANGED x2
     ELSE /\ fault' = NoFault
          /\ x1' = ExactAltRoot1(a, b, c)
          /\ x2' = ExactAltRoot2(a, b, c)
          /\ defined' = defined \cup {"x1", "x2"}
          /\ out' = << Line("x1 =  {}", <<x1'>>), Line("x2 =  {}", <<x2'>>) >>
  /\ UNCHANGED <<ex1, ex2, a, b, c, ex4, pc, iter>>

NextExact == ExactCell4 \/ ExactCell5

SpecExact == InitExact /\ [][NextExact]_vars

(***************************************************************************)
(* The recorded outputs of the cells, as the floats their decimals denote, *)
(* and the measures of accuracy the properties use.                        *)
(***************************************************************************)
\* x =  3.3000000000000003
OutXSum == Dec(FALSE, <<3, 3, 0, 0, 0, 0, 0, 0, 0, 0, 0, 0, 0, 0, 0, 0, 3>>, -16)
\* (1/delta) * (y-x) =  1.4210854715202004
OutRes == Dec(FALSE, <<1, 4, 2, 1, 0, 8, 5, 4, 7, 1, 5, 2, 0, 2, 0, 0, 4>>, -16)
\* The accurate value is sqrt(2) =  1.4142135623730951
OutSqrt2 == Dec(FALSE, <<1, 4, 1, 4, 2, 1, 3, 5, 6, 2, 3, 7, 3, 0, 9, 5, 1>>, -16)
\* The difference is  0.006871909147105226
OutDiff == Dec(FALSE, <<6, 8, 7, 1, 9, 0, 9, 1, 4, 7, 1, 0, 5, 2, 2, 6>>, -18)
\* x1 =  -9.094947017729282e-09 and x2 =  -100000000.0
OutStdX1 == Dec(TRUE, <<9, 0, 9, 4, 9, 4, 7, 0, 1, 7, 7, 2, 9, 2, 8, 2>>, -24)
OutStdX2 == Dec(TRUE, <<1>>, 8)
\* x1 =  -1e-08 and x2 =  -109951162.7776
OutAltX1 == Dec(TRUE, <<1>>, -8)
OutAltX2 == Dec(TRUE, <<1, 0, 9, 9, 5, 1, 1, 6, 2, 7, 7, 7, 6>>, -4)

\* the analytic roots of the equation of Example 3, about -1e-8 and -1e8
AnalyticX1 == Dec(TRUE, <<1>>, -8)
AnalyticX2 == Dec(TRUE, <<1>>, 8)

\* |v - ref| < tol * |ref| and |v - ref| > tol * |ref|
RelErrBelow(v, ref, tol) == FLt(FAbs(FSub(v, ref)), FMul(tol, FAbs(ref)))
RelErrAbove(v, ref, tol) == FLt(FMul(tol, FAbs(ref)), FAbs(FSub(v, ref)))

\* tolerances: a few units of the last place, one per cent, and the bounds
\* of "about 9%" and "about 10%"
TightTol == Dec(FALSE, <<1>>, -15)
LooseTol == Dec(FALSE, <<1>>, -2)
Tol8pc   == Dec(FALSE, <<8>>, -2)
Tol10pc  == Dec(FALSE, <<1>>, -1)
Tol11pc  == Dec(FALSE, <<1, 1>>, -2)

\* Example 3's cells ran to their end
StdDone == cell = 4 /\ fault = NoFault
AltDone == cell = 5 /\ fault = NoFault

\* the exceptions of reading a name that is not bound
NameErrors ==
  {NameError(n) : n \in {"x", "sqrt", "a", "b", "c", "arr_h", "arr_err"}}

\* the cells run so far are the first cells of example e, each run once and
\* in notebook order, in a namespace that was fresh before them
RanAlone(e) ==
  /\ ascending
  /\ ran \subseteq ExampleCells[e]
  /\ \A k \in ran : \A j \in ExampleCells[e] : j < k => j \in ran

\* C1: running the cells of any one example in a fresh namespace, in notebook
\* order and without any cell of another example, never reads a name that no
\* cell of that example has defined
C1_ExamplesSelfContained ==
  (\E e \in 1..Len(ExampleCells) : RanAlone(e)) => fault \notin NameErrors

\* C2: in exact arithmetic, for a # 0, c # 0 and D >= 0, the roots of the
\* alternate form equal those of the quadratic formula, root by root, when no
\* denominator is zero, and (-b + s) * (-b - s) = 4*a*c
C2_AlternateFormEquivalent ==
  (a # 0 /\ c # 0 /\ ExactDisc(a, b, c) >= 0) =>
    /\ SurdEq(SurdMul(Surd(-b, 1), Surd(-b, -1), ExactDisc(a, b, c)),
              Surd(4 * a * c, 0), ExactDisc(a, b, c))
    /\ AltDone =>
         /\ QuotEq(x1, ExactStdRoot1(a, b, c), ExactDisc(a, b, c))
         /\ QuotEq(x2, ExactStdRoot2(a, b, c), ExactDisc(a, b, c))
    /\ (/\ StdDone
        /\ ~SurdIsZero(ExactAltRoot1(a, b, c).den, ExactDisc(a, b, c))
        /\ ~SurdIsZero(ExactAltRoot2(a, b, c).den, ExactDisc(a, b, c))) =>
         /\ QuotEq(x1, ExactAltRoot1(a, b, c), ExactDisc(a, b, c))
         /\ QuotEq(x2, ExactAltRoot2(a, b, c), ExactDisc(a, b, c))

\* the alternate form ran to its end on an equation whose roots are irrational
C2_Witness ==
  /\ AltDone /\ a # 0 /\ c # 0
  /\ ExactDisc(a, b, c) > 0 /\ ~IsSquare(ExactDisc(a, b, c))

\* C3, as stated: for a = 1e-4, b = 1e4, c = 1e-4 each root the alternate form
\* computes matches its analytic root within a small relative tolerance
C3_AlternateFormStable ==
  AltDone =>
    /\ RelErrBelow(x1, AnalyticX1, LooseTol)
    /\ RelErrBelow(x2, AnalyticX2, LooseTol)

\* C3, amended: for these inputs the alternate form is stable for x1 only:
\* x1 matches -1e-8 to a few units of the last place, x2 misses -1e8 by more
\* than one per cent
C3_AlternateFormStableForX1 ==
  AltDone =>
    /\ RelErrBelow(x1, AnalyticX1, TightTol)
    /\ RelErrAbove(x2, AnalyticX2, LooseTol)

C3_Witness == AltDone /\ x1 = AltRoot1(ALit, BLit, CLit)

\* C4: for a = 1e-4, b = 1e4, c = 1e-4 the quadratic formula computes x2
\* accurately as -100000000.0 and x1 as -9.094947017729282e-09, about 9% off
\* -1e-8, because b and sqrt(b*b - 4ac), nearly equal, are subtracted
C4_StandardFormLosesX1 ==
  StdDone =>
    /\ a = Dec(FALSE, <<1>>, -4) /\ b = Dec(FALSE, <<1>>, 4) /\ c = Dec(FALSE, <<1>>, -4)
    /\ x1 = OutStdX1 /\ x2 = OutStdX2
    /\ out = << Line("x1 =  {}", <<OutStdX1>>), Line("x2 =  {}", <<OutStdX2>>) >>
    /\ RelErrBelow(x2, AnalyticX2, TightTol)
    /\ RelErrAbove(x1, AnalyticX1, Tol8pc) /\ RelErrBelow(x1, AnalyticX1, Tol10pc)
    /\ FSqrt(Disc(a, b, c)) # b
    /\ RelErrBelow(FSqrt(Disc(a, b, c)), b, TightTol)
    /\ x1 = FDiv(FAdd(FNeg(b), FSqrt(Disc(a, b, c))), FMul(Two, a))

C4_Witness == StdDone /\ "x1" \in defined /\ x1 # AnalyticX1

\* C5: for a = 1e-4, b = 1e4, c = 1e-4 the alternate form gives an accurate
\* x1 = -1e-08 and an inaccurate x2 = -109951162.7776, about 10% off -1e8, so
\* neither form alone gives both roots accurately and the accurate pair is x2
\* of the quadratic formula with x1 of the alternate form
C5_AlternateFormLosesX2 ==
  AltDone =>
    /\ x1 = OutAltX1 /\ x2 = OutAltX2
    /\ out = << Line("x1 =  {}", <<OutAltX1>>), Line("x2 =  {}", <<OutAltX2>>) >>
    /\ RelErrBelow(x1, AnalyticX1, TightTol)
    /\ RelErrAbove(x2, AnalyticX2, Tol8pc) /\ RelErrBelow(x2, AnalyticX2, Tol11pc)
    /\ RelErrAbove(StdX1, AnalyticX1, LooseTol)
    /\ RelErrBelow(StdX2, AnalyticX2, TightTol)

C5_Witness == AltDone /\ "x2" \in defined /\ x2 # AnalyticX2

\* no decimal of 16 digits denotes v, which lies between two neighbours of
\* them: printing v takes 17 digits
NeedsAllDigits(v) ==
  /\ FLt(Dec(FALSE, <<3, 3, 0, 0, 0, 0, 0, 0, 0, 0, 0, 0, 0, 0, 0, 0>>, -15), v)
  /\ FLt(v, Dec(FALSE, <<3, 3, 0, 0, 0, 0, 0, 0, 0, 0, 0, 0, 0, 0, 0, 1>>, -15))

\* C6: with x = 1.1 + 2.2 in 64-bit floating point the test x == 3.3 is
\* False, x being 3.3000000000000003, and the cell prints "x == 3.3 is False"
C6_ExactEqualityIsFalse ==
  cell = 1 =>
    /\ x = FAdd(Dec(FALSE, <<1, 1>>, -1), Dec(FALSE, <<2, 2>>, -1))
    /\ x = OutXSum /\ NeedsAllDigits(x)
    /\ ~FEq(x, Dec(FALSE, <<3, 3>>, -1))
    /\ out = << Line("x =  {}", <<OutXSum>>),
                Line("{}", <<Dec(FALSE, <<3, 3>>, -1)>>),
                Line("x == 3.3 is False", <<>>) >>

C6_Witness == cell = 1 /\ fault = NoFault /\ "x" \in defined /\ Len(out) = 3

\* the second cell of Example 1 ran to its end on the x of the first
TolDone == cell = 2 /\ fault = NoFault /\ x = OutXSum

\* C7: with x = 1.1 + 2.2 and eps = 1e-12 the comparison abs(x - 3.3) < eps
\* is True, the round-off |x - 3.3| being of the order of 1e-15 and so below
\* eps, and the cell prints that x == 3.3 to a precision of 1e-12 is True
C7_ToleranceComparisonIsTrue ==
  TolDone =>
    /\ eps = Dec(FALSE, <<1>>, -12)
    /\ FLt(FAbs(FSub(x, Lit3p3)), eps)
    /\ FLt(Dec(FALSE, <<1>>, -16), FAbs(FSub(x, Lit3p3)))
    /\ FLt(FAbs(FSub(x, Lit3p3)), Dec(FALSE, <<1>>, -15))
    /\ out = << Line("x =  {}", <<OutXSum>>),
                Line("x == 3.3 to a precision of {} is True", <<eps>>) >>

C7_Witness == TolDone /\ "eps" \in defined /\ Len(out) = 2

\* C8: for delta = 1e-14, x = 1 and y = 1 + delta*sqrt(2) the float
\* res = (1/delta)*(y - x) is 1.4210854715202004 and misses
\* sqrt(2) = 1.4142135623730951 by about 6.9e-3: the third significant digit
\* is already wrong
C8_CancellationLosesSqrt2 ==
  cell = 3 =>
    /\ delta = Dec(FALSE, <<1>>, -14) /\ x = Dec(FALSE, <<1>>, 0)
    /\ y = FAdd(x, FMul(delta, FSqrt(Dec(FALSE, <<2>>, 0))))
    /\ res = OutRes /\ res # OutSqrt2
    /\ FSqrt(Dec(FALSE, <<2>>, 0)) = OutSqrt2
    /\ FSub(res, OutSqrt2) = OutDiff
    /\ FLt(Dec(FALSE, <<6, 8>>, -4), OutDiff) /\ FLt(OutDiff, Dec(FALSE, <<7>>, -3))
    /\ out[3] = Line("(1/delta) * (y-x) =  {}", <<OutRes>>)
    /\ out[4] = Line("The accurate value is sqrt(2) =  {}", <<OutSqrt2>>)
    /\ out[5] = Line("The difference is  {}", <<OutDiff>>)

C8_Witness == cell = 3 /\ fault = NoFault /\ "res" \in defined /\ Len(out) = 5

\* the loop of Example 4 ran to its end
SweepDone == cell = 6 /\ pc = "idle" /\ fault = NoFault

\* C9: the sweep uses step sizes h from 1 down to 10^-16: the first h is
\* 10^0 = 1, every later h is the next power of ten below the one before, and
\* the last h evaluated and stored in arr_h is 10^-16
C9_SweepDownTo1e16 ==
  SweepDone =>
    /\ arr_h # <<>>
    /\ arr_h[1] = Pow10(0)
    /\ \A j \in 1..Len(arr_h) : arr_h[j] = Pow10(1 - j)
    /\ arr_h[Len(arr_h)] = Pow10(-16)
    /\ h = Pow10(-16)

\* the index of the smallest relative error: each other one is larger
IsMinimumAt(m) ==
  /\ m \in 1..Len(arr_err)
  /\ \A j \in 1..Len(arr_err) : j # m => FLt(arr_err[m], arr_err[j])

\* C10: over the sweep the relative error first decreases as h becomes
\* smaller, staying about h, and then increases again: arr_err is not
\* monotone, its minimum is at an interior step size, h = 1e-8, and it is
\* larger at both ends of the sweep
C10_ErrorFallsThenRises ==
  SweepDone =>
    /\ \E m \in 2..(Len(arr_err) - 1) :
         /\ IsMinimumAt(m)
         /\ arr_h[m] = Dec(FALSE, <<1>>, -8)
         /\ \A j \in 1..(m - 1) :
              /\ FLt(arr_err[j + 1], arr_err[j])
              /\ RelErrBelow(arr_err[j], arr_h[j], LooseTol)
         /\ FLt(arr_err[m], arr_err[m + 1])
         /\ FLt(arr_err[m], arr_err[1])
         /\ FLt(arr_err[m], arr_err[Len(arr_err)])
    /\ \E j \in 1..(Len(arr_err) - 1) : FLt(arr_err[j], arr_err[j + 1])
    /\ \E j \in 1..(Len(arr_err) - 1) : FLt(arr_err[j + 1], arr_err[j])

C10_Witness == SweepDone /\ Len(arr_err) > 2 /\ Len(out) = Len(arr_err) + 1

(***************************************************************************)
(* Example 4 in exact arithmetic.  The cell runs on the same namespace     *)
(* with rational numbers n/d, d > 0, in place of floats; the evaluation    *)
(* point x0 is drawn by the initial state instead of being the literal 1., *)
(* and the loop takes any rational step size h instead of the powers of    *)
(* ten, MaxSweep of them at most.                                          *)
(***************************************************************************)
\* numerators range over -MaxNum .. MaxNum, denominators over 1 .. MaxDen
MaxNum == 2
MaxDen == 2

\* the longest sweep
MaxSweep == 2

Rat(n, d) == [n |-> n, d |-> d]
Rats == {Rat(n, d) : n \in -MaxNum..MaxNum, d \in 1..MaxDen}
RatOfInt(n) == Rat(n, 1)
RatIsZero(u) == u.n = 0
RatEq(u, w) == u.n * w.d = w.n * u.d
RatAdd(u, w) == Rat(u.n * w.d + w.n * u.d, u.d * w.d)
RatSub(u, w) == Rat(u.n * w.d - w.n * u.d, u.d * w.d)
RatMul(u, w) == Rat(u.n * w.n, u.d * w.d)
\* u / w for w # 0, the denominator kept positive
RatDiv(u, w) ==
  IF w.n > 0 THEN Rat(u.n * w.d, u.d * w.n) ELSE Rat(-(u.n * w.d), -(u.d * w.n))
RatAbs(u) == IF u.n < 0 THEN Rat(-u.n, u.d) ELSE u

\* the slip of writing x*(x+1.)
Exact_f_SignSlip(px) == RatMul(px, RatAdd(px, RatOfInt(1)))

\* def f(x): return x*(x-1.)
Exact_f(px) == RatMul(px, RatSub(px, RatOfInt(1)))

\* def df_exact(x): return 2.*x - 1.
Exact_df_exact(px) == RatSub(RatMul(RatOfInt(2), px), RatOfInt(1))

\* def df_numeric(x,h): return (f(x+h) - f(x)) / h
Exact_df_numeric(px, ph) ==
  RatDiv(RatSub(Exact_f(RatAdd(px, ph)), Exact_f(px)), ph)

InitExactSweep ==
  /\ x0 \in Rats
  /\ x = Zero /\ eps = Zero
  /\ delta = Zero /\ y = Zero /\ res = Zero
  /\ a = Zero /\ b = Zero /\ c = Zero /\ x1 = Zero /\ x2 = Zero
  /\ i = 0 /\ h = Zero /\ df_val = Zero /\ df_err = Zero
  /\ arr_h = <<>> /\ arr_df = <<>> /\ arr_err = <<>>
  /\ defined = {"f", "df_exact", "df_numeric", "x0", "arr_h", "arr_df", "arr_err"}
  /\ pc = "sweep" /\ iter = 0 /\ cell = 6
  /\ out = << Line("{:<10} {:<20} {:<20}", <<>>) >>
  /\ fig = <<>> /\ fault = NoFault
  /\ ran = {6} /\ ascending = TRUE

\* one pass of the loop with the step size hh: the division by h in
\* df_numeric and the one by df_exact(x0) in df_err can raise
ExactSweepIter ==
  /\ pc = "sweep"
  /\ iter < MaxSweep
  /\ \E hh \in Rats :
       /\ h' = hh
       /\ IF RatIsZero(hh) \/ RatIsZero(Exact_df_exact(x0))
          THEN /\ fault' = ZeroDivisionError
               /\ pc' = "idle"
               /\ defined' = defined \cup {"i", "h"}
               /\ UNCHANGED <<df_val, df_err, arr_h, arr_df, arr_err, out>>
          ELSE /\ df_val' = Exact_df_numeric(x0, hh)
               /\ df_err' = RatDiv(RatAbs(RatSub(Exact_df_numeric(x0, hh),
                                                 Exact_df_exact(x0))),
                                   Exact_df_exact(x0))
               /\ arr_h' = Append(arr_h, h')
               /\ arr_df' = Append(arr_df, df_val')
               /\ arr_err' = Append(arr_err, df_err')
               /\ out' = Append(out, Line("{:<10} {:<20} {:<20}", <<h', df_val', df_err'>>))
               /\ defined' = defined \cup {"i", "h", "df_val", "df_err"}
               /\ UNCHANGED <<fault, pc>>
  /\ i' = -iter
  /\ iter' = iter + 1
  /\ UNCHANGED <<ex1, ex2, ex3, x0, cell, fig, ran, ascending>>

\* the loop and the cell end
ExactSweepExit ==
  /\ pc = "sweep"
  /\ iter = MaxSweep
  /\ pc' = "idle"
  /\ UNCHANGED <<ex1, ex2, ex3, ex4, defined, iter, cell, out, fig, fault, ran, ascending>>

NextExactSweep == ExactSweepIter \/ ExactSweepExit

SpecExactSweep == InitExactSweep /\ [][NextExactSweep]_vars

\* C11: in exact arithmetic, for every x and every h # 0,
\* df_numeric(x,h) = 2x - 1 + h, so df_numeric(x,h) - df_exact(x) = h, an
\* error that is as small as h is; the correct value at x = 1 is
\* df_exact(1) = 1
C11_NumericDerivativeIsExactPlusH ==
  /\ \A j \in 1..Len(arr_h) :
       /\ ~RatIsZero(arr_h[j])
       /\ RatEq(arr_df[j],
                RatAdd(RatSub(RatMul(RatOfInt(2), x0), RatOfInt(1)), arr_h[j]))
       /\ RatEq(RatSub(arr_df[j], Exact_df_exact(x0)), arr_h[j])
       /\ RatEq(RatMul(arr_err[j], Exact_df_exact(x0)), RatAbs(arr_h[j]))
  /\ RatEq(x0, RatOfInt(1)) => RatEq(Exact_df_exact(x0), RatOfInt(1))

\* two steps were taken from a point that is no integer
C11_Witness ==
  /\ Len(arr_df) = MaxSweep /\ pc = "idle" /\ fault = NoFault
  /\ x0.d # 1 /\ ~RatEq(arr_h[1], arr_h[2])

(***************************************************************************)
(* The kernel runs a cell it has started to its end: a pass of the loop    *)
(* that can be taken is taken, and so is the exit of the loop.             *)
(***************************************************************************)
FairSpec == Spec /\ WF_vars(SweepIter) /\ WF_vars(SweepExit)

\* the number of values of the range: the passes of a whole sweep
RangeLen == (RangeStart - RangeStop) \div (-RangeStep)

\* while and after the Example 4 cell runs: iter passes are done, the last
\* with i = 1 - iter, each has printed one row after the header and
\* recorded one sample, and the cell ends only after 20 passes
SweepCounts ==
  (cell = 6 /\ fault = NoFault) =>
    /\ iter \in 0..20
    /\ iter > 0 => i = 1 - iter /\ i \in -19..0
    /\ Len(out) = iter + 1
    /\ Len(arr_h) = iter /\ Len(arr_df) = iter /\ Len(arr_err) = iter
    /\ pc = "idle" => iter = 20 /\ i = -19

\* C12: the sweep loop terminates after exactly 20 iterations, i taking the
\* values 0, -1, ..., -19 in that order and never -20, so exactly 20 rows are
\* printed and exactly 20 samples are recorded
C12_SweepTerminatesAfterTwenty ==
  /\ []SweepCounts
  /\ [][SweepIter => i' = -iter /\ iter' = iter + 1]_vars
  /\ (pc = "sweep") ~> (SweepDone /\ iter = 20)

C12_Witness == SweepDone /\ iter = RangeLen /\ i = RangeStop - RangeStep

\* the j-th sample of a sweep at x0 = 1., j = 1, 2, ..., computed from its
\* place alone: the step 10^(1 - j), the forward difference at that step and
\* its relative error
AlignedDf(ph) == df_numeric(X0Lit, ph)
AlignedErr(pd) == FDiv(FAbs(FSub(pd, df_exact(X0Lit))), df_exact(X0Lit))
AlignedSample(ph) == [h |-> ph, df |-> AlignedDf(ph), err |-> AlignedErr(AlignedDf(ph))]
AlignedSamples == [j \in 1..RangeLen |-> AlignedSample(Pow10(1 - j))]

\* C13: throughout the sweep the three lists stay aligned: after k iterations
\* each has length k, arr_h[j] = 10^(-j) counting from 0, arr_df[j] =
\* df_numeric(x0, arr_h[j]) and arr_err[j] = |arr_df[j] - df_exact(x0)| /
\* df_exact(x0), and every point of the scatter plot pairs matching entries
C13_ListsStayAligned ==
  /\ Len(arr_df) = Len(arr_h)
  /\ Len(arr_err) = Len(arr_h)
  /\ pc = "sweep" => Len(arr_h) = iter
  /\ Len(arr_h) > 0 => x0 = X0Lit
  /\ \A j \in 1..Len(arr_h) :
       /\ arr_h[j] = AlignedSamples[j].h
       /\ arr_df[j] = AlignedSamples[j].df
       /\ arr_err[j] = AlignedSamples[j].err
  /\ (cell = 7 /\ fault = NoFault) =>
       /\ Len(fig) = Len(arr_h)
       /\ \A j \in 1..Len(fig) : fig[j] = <<arr_h[j], arr_err[j]>>

C13_Witness ==
  /\ cell = 7 /\ fault = NoFault
  /\ Len(fig) = RangeLen
  /\ fig[RangeLen][1] = Pow10(RangeStop - RangeStep)

\* the step 1e-16, the first of the sweep that 1. absorbs
AbsorbedStep == Dec(FALSE, <<1>>, -16)

\* C14: for every step h <= 1e-16 of the sweep (1e-16, 1e-17, 1e-18, 1e-19)
\* the sum x0 + h equals x0 = 1 in binary64, so df_numeric(1, h) is exactly
\* 0.0 and the relative error is exactly 1.0
C14_SmallStepsAreAbsorbed ==
  /\ \A j \in 1..Len(arr_h) :
       ~FLt(AbsorbedStep, arr_h[j]) =>
         /\ x0 = One
         /\ FAdd(x0, arr_h[j]) = x0
         /\ arr_df[j] = Zero
         /\ arr_err[j] = One
  /\ SweepDone =>
       \A j \in 1..Len(arr_h) : ~FLt(AbsorbedStep, arr_h[j]) <=> j \in 17..20

C14_Witness ==
  /\ SweepDone
  /\ arr_h[17] = AbsorbedStep
  /\ arr_h[20] = Dec(FALSE, <<1>>, -19)
  /\ arr_df[20] = Zero

\* C15: for the inputs of the notebook no division has a zero denominator:
\* h and df_exact(x0) = 1 are nonzero in every iteration of the sweep,
\* delta = 1e-14 is nonzero, and the denominators of Example 3, 2a,
\* -b - sqrt(b*b - 4ac) and -b + sqrt(b*b - 4ac), are nonzero
C15_NoZeroDenominator ==
  /\ fault # ZeroDivisionError
  /\ "h" \in defined => ~IsZero(h)
  /\ \A j \in 1..Len(arr_h) : ~IsZero(arr_h[j])
  /\ "x0" \in defined => df_exact(x0) = One /\ ~IsZero(df_exact(x0))
  /\ "delta" \in defined => delta = DeltaLit /\ ~IsZero(delta)
  /\ {"a", "b", "c"} \subseteq defined =>
       /\ ~IsZero(FMul(Two, a))
       /\ ~IsZero(AltDen1(a, b, c))
       /\ ~IsZero(AltDen2(a, b, c))

C15_Witness ==
  /\ cell = 5 /\ fault = NoFault
  /\ {3, 4, 6} \subseteq ran
  /\ "delta" \in defined /\ "x2" \in defined
  /\ Len(arr_h) = RangeLen

(***************************************************************************)
(* Example 2 in exact arithmetic.  The cell runs on the same namespace     *)
(* with exact numbers in place of floats: quotients of numbers p + q*s     *)
(* with s = sqrt(2), which the four operations keep exact.  delta is drawn *)
(* by the initial state instead of being the literal of the cell, zero     *)
(* included: a zero delta raises at 1./delta, after x and y are printed.   *)
(***************************************************************************)
\* the numerators of delta range over p + q*s with p, q in
\* -MaxDelta .. MaxDelta, the denominators over 1 .. MaxDelta
MaxDelta == 3

\* sqrt(2): s with s*s = 2
RadTwo == 2

SurdAdd(u, w) == Surd(u.p + w.p, u.q + w.q)
SurdSub(u, w) == Surd(u.p - w.p, u.q - w.q)

QuotIsZero(u, sd) == SurdIsZero(u.num, sd)
QuotAdd(u, w, sd) ==
  Quot(SurdAdd(SurdMul(u.num, w.den, sd), SurdMul(w.num, u.den, sd)),
       SurdMul(u.den, w.den, sd))
QuotSub(u, w, sd) ==
  Quot(SurdSub(SurdMul(u.num, w.den, sd), SurdMul(w.num, u.den, sd)),
       SurdMul(u.den, w.den, sd))
QuotMul(u, w, sd) == Quot(SurdMul(u.num, w.num, sd), SurdMul(u.den, w.den, sd))
QuotDiv(u, w, sd) == Quot(SurdMul(u.num, w.den, sd), SurdMul(u.den, w.num, sd))

ExactOne   == Quot(Surd(1, 0), Surd(1, 0))
ExactSqrt2 == Quot(Surd(0, 1), Surd(1, 0))

Deltas ==
  { Quot(Surd(p, q), Surd(d, 0)) :
      p \in -MaxDelta..MaxDelta, q \in -MaxDelta..MaxDelta, d \in 1..MaxDelta }

\* y = 1. + delta * sqrt(2)
ExactY(pd) == QuotAdd(ExactOne, QuotMul(pd, ExactSqrt2, RadTwo), RadTwo)

\* the slip of multiplying by delta in place of 1./delta
ExactResNoInverse(pd, py, pz) == QuotMul(pd, QuotSub(py, pz, RadTwo), RadTwo)

\* res = (1./delta)*(y-x)
ExactRes(pd, py, pz) ==
  QuotMul(QuotDiv(ExactOne, pd, RadTwo), QuotSub(py, pz, RadTwo), RadTwo)

InitExactCancel ==
  /\ delta \in Deltas
  /\ x = Zero /\ eps = Zero
  /\ y = Zero /\ res = Zero
  /\ a = Zero /\ b = Zero /\ c = Zero /\ x1 = Zero /\ x2 = Zero
  /\ x0 = Zero /\ i = 0 /\ h = Zero /\ df_val = Zero /\ df_err = Zero
  /\ arr_h = <<>> /\ arr_df = <<>> /\ arr_err = <<>>
  /\ defined = {"sqrt", "delta"}
  /\ pc = "idle" /\ iter = 0 /\ cell = 0
  /\ out = <<>> /\ fig = <<>> /\ fault = NoFault
  /\ ran = {} /\ ascending = TRUE

\* Example 2: x and y are bound and printed, then 1./delta is taken
ExactCell3 ==
  /\ Start(3)
  /\ x' = ExactOne
  /\ y' = ExactY(delta)
  /\ fig' = <<>>
  /\ IF QuotIsZero(delta, RadTwo)
     THEN /\ fault' = ZeroDivisionError
          /\ defined' = defined \cup {"x", "y"}
          /\ out' = << Line("x =  {}", <<x'>>), Line("y =  {}", <<y'>>) >>
          /\ UNCHANGED res
     ELSE /\ fault' = NoFault
          /\ res' = ExactRes(delta, y', x')
          /\ defined' = defined \cup {"x", "y", "res"}
          /\ out' = << Line("x =  {}", <<x'>>),
                       Line("y =  {}", <<y'>>),
                       Line("(1/delta) * (y-x) =  {}", <<res'>>),
                       Line("The accurate value is sqrt(2) =  {}", <<ExactSqrt2>>),
                       Line("The difference is  {}",
                            <<QuotSub(res', ExactSqrt2, RadTwo)>>) >>
  /\ UNCHANGED <<eps, delta, ex3, ex4, pc, iter>>

NextExactCancel == ExactCell3

SpecExactCancel == InitExactCancel /\ [][NextExactCancel]_vars

\* C16: in exact arithmetic, for every nonzero delta, with x = 1 and
\* y = 1 + delta*r, r = sqrt(2), the cell computes (1/delta)*(y - x) = r
C16_ExactIdentity ==
  /\ (cell = 3 /\ ~QuotIsZero(delta, RadTwo)) =>
       /\ fault = NoFault
       /\ x = ExactOne
       /\ QuotEq(y, QuotAdd(ExactOne, QuotMul(delta, ExactSqrt2, RadTwo), RadTwo),
                 RadTwo)
       /\ QuotEq(res, ExactSqrt2, RadTwo)
       /\ QuotIsZero(out[5].args[1], RadTwo)
  /\ (cell = 3 /\ QuotIsZero(delta, RadTwo)) => fault = ZeroDivisionError

C16_Witness ==
  /\ cell = 3 /\ fault = NoFault
  /\ delta.num.p # 0 /\ delta.num.q # 0 /\ delta.den.p = MaxDelta
  /\ "res" \in defined

\* C17: once the first Example 1 cell has run, the tolerance-comparison cell,
\* run at any later point after any executions of the other cells, reads the
\* same x = 1.1 + 2.2 and prints True; in particular the Example 2 cell
\* leaves the x of Example 1 unchanged
C17_ToleranceCellIndependent ==
  (1 \in ran /\ cell = 2) =>
    /\ fault = NoFault
    /\ x = XSum
    /\ out = << Line("x =  {}", <<XSum>>),
                Line("x == 3.3 to a precision of {} is True", <<EpsLit>>) >>

\* the cells run so far are the first ones of the notebook, each run once,
\* in notebook order, from the empty namespace
TopToBottom == ascending /\ \E k \in 0..7 : ran = 1..k

\* the names the cells read
NamesRead ==
  {"x", "eps", "sqrt", "delta", "y", "a", "b", "c", "f", "df_exact",
   "df_numeric", "x0", "arr_h", "arr_err", "plt"}

\* C18: when the code cells run once each in top-to-bottom order from an
\* empty namespace, every name a cell reads has been defined by that cell or
\* an earlier one: no cell ends in an undefined-name fault and all seven
\* cells complete
C18_TopToBottomRunCompletes ==
  TopToBottom =>
    /\ fault = NoFault
    /\ (ran = Cells /\ pc = "idle") =>
         /\ cell = 7
         /\ NamesRead \subseteq defined
         /\ Len(arr_h) = 20 /\ Len(fig) = 20

C18_Witness ==
  /\ TopToBottom /\ ran = Cells /\ pc = "idle"
  /\ cell = 7 /\ fault = NoFault /\ "plt" \in defined

\* C19: every sample passed to the log-log scatter plot is strictly positive
\* in both coordinates: for all 20 iterations arr_h[j] > 0 and arr_err[j] > 0
\* (the relative error is never exactly zero), so no point is lost on the
\* logarithmic axes
C19_SamplesArePositive ==
  /\ \A j \in 1..Len(arr_h) : FLt(Zero, arr_h[j]) /\ FLt(Zero, arr_err[j])
  /\ (cell = 7 /\ fault = NoFault) =>
       \A j \in 1..Len(fig) : FLt(Zero, fig[j][1]) /\ FLt(Zero, fig[j][2])
  /\ (cell = 7 /\ fault = NoFault /\ 6 \in ran) => Len(fig) = 20

C19_Witness ==
  /\ cell = 7 /\ fault = NoFault
  /\ Len(fig) = 20
  /\ fig[1][1] = One /\ fig[20][2] = One

====
